---- MODULE Spec2Model ----
(***************************************************************************)
(* Model of zenml's PluginFlavorRegistry                                   *)
(* (src/src/zenml/plugins/plugin_flavor_registry.py), of the trigger       *)
(* models (src/src/zenml/models/v2/core/trigger.py) and of the             *)
(* prediction_service_loader step of the vertex_deployer example.          *)
(*                                                                         *)
(* A Python dict is modelled as the sequence of its items [k, v] in        *)
(* insertion order, so key uniqueness and enumeration order are facts of   *)
(* the model that the operations have to establish.  An exception is       *)
(* modelled as the "exc" field of an operation's result.                   *)
(***************************************************************************)
EXTENDS Integers, Sequences, FiniteSets, TLC

VARIABLES
    module_exc,           \* the exception the import of plugin_flavor_registry raised ("none": it completed)
    plugin_flavors,       \* self.plugin_flavors: type -> subtype -> name -> RegistryEntry
    builtin_flavors,      \* what _builtin_flavors returned at construction
    integration_flavors,  \* what _integration_flavors returned at construction
    first_call,           \* history: key -> name of the class the earliest register_plugin_flavor call for it passed
    register_calls,       \* history: number of flavor classes that callers and integrations passed to register_plugin_flavor after construction
    next_id,              \* identity of the next object a PLUGIN_CLASS() call creates
    init_count,           \* history: number of completed initialize_plugins calls
    init_keys,            \* history: keys that were registered when initialize_plugins last completed
    inst_count,           \* history: key -> number of PLUGIN_CLASS() calls made for it
    created,              \* history: key -> the object the latest PLUGIN_CLASS() call for it created
    first_created,        \* history: key -> the object the first PLUGIN_CLASS() call for it created
    init_pos,             \* position of a running initialize_plugins in its iteration (0: not running)
    trigger,              \* the trigger record the metadata store holds
    response,             \* the TriggerResponse object a client of the store holds
    last                  \* the call whose result its caller holds (Idle: none)

vars == <<module_exc, plugin_flavors, builtin_flavors, integration_flavors, first_call,
          register_calls, next_id,
          init_count, init_keys, inst_count, created, first_created,
          init_pos, trigger, response, last>>

----------------------------------------------------------------------------
(* Bounds of the model *)

MaxIntegrations == 2
MaxRegisterCalls == 2
MaxInits == 2
MaxPage == 4
MaxSize == 2
MaxServices == 2

----------------------------------------------------------------------------
(* Calls and their results.  The result of a call is the exception it      *)
(* raised ("none": it returned) and the value it returned.                 *)

\* Python's None
None == [cls |-> "None", id |-> 0]

\* what the caller of op(args) holds when the call ended as result
Called(op, args, result) ==
    [op |-> op, args |-> args, exc |-> result.exc, value |-> result.value]

\* no caller holds a result
Idle == [op |-> "idle", args |-> <<>>, exc |-> "none", value |-> None]

----------------------------------------------------------------------------
(* Python dict and list primitives *)

DictHas(d, k) == \E i \in 1..Len(d) : d[i].k = k

DictGet(d, k) == d[CHOOSE i \in 1..Len(d) : d[i].k = k].v

DictKeys(d) == [i \in 1..Len(d) |-> d[i].k]

DictValues(d) == [i \in 1..Len(d) |-> d[i].v]

\* d.setdefault(k, v): d after the call (the item is appended only if k is absent)
DictSetDefault(d, k, v) ==
    IF DictHas(d, k) THEN d ELSE Append(d, [k |-> k, v |-> v])

\* the dict d after the object stored under k was mutated in place into v
DictMutated(d, k, v) ==
    [i \in 1..Len(d) |-> IF d[i].k = k THEN [k |-> k, v |-> v] ELSE d[i]]

\* Python's index clamping for a slice bound x on a list of length n
SliceBound(x, n) ==
    IF x < 0 THEN (IF x + n < 0 THEN 0 ELSE x + n)
    ELSE (IF x > n THEN n ELSE x)

\* seq[start:end]
PySlice(seq, start, end) ==
    LET lo == SliceBound(start, Len(seq))
        hi == SliceBound(end, Len(seq))
    IN  IF lo >= hi THEN <<>> ELSE SubSeq(seq, lo + 1, hi)

----------------------------------------------------------------------------
(* Flavor classes.  A flavor class is its name and its class attributes. *)

FlavorClass(name, type, subtype, flavor, plugin) ==
    [name |-> name, TYPE |-> type, SUBTYPE |-> subtype, FLAVOR |-> flavor,
     PLUGIN_CLASS |-> plugin]

SchedulerEventSourceFlavor ==
    FlavorClass("SchedulerEventSourceFlavor", "event_source", "scheduler",
                "scheduler", "SchedulerEventSourceHandler")

PipelineRunActionFlavor ==
    FlavorClass("PipelineRunActionFlavor", "action", "pipeline_run",
                "builtin", "PipelineRunActionHandler")

\* Flavors integrations may contribute: two classes share a key, one shares
\* its key with a built-in flavor.
GithubFlavor ==
    FlavorClass("GithubFlavor", "event_source", "webhook", "github", "GithubHandler")

GithubForkFlavor ==
    FlavorClass("GithubForkFlavor", "event_source", "webhook", "github", "GithubForkHandler")

GitlabFlavor ==
    FlavorClass("GitlabFlavor", "event_source", "webhook", "gitlab", "GitlabHandler")

BitbucketFlavor ==
    FlavorClass("BitbucketFlavor", "event_source", "webhook", "bitbucket", "BitbucketHandler")

ShadowActionFlavor ==
    FlavorClass("ShadowActionFlavor", "action", "pipeline_run", "builtin", "ShadowActionHandler")

BuiltinFlavors == <<SchedulerEventSourceFlavor, PipelineRunActionFlavor>>

IntegrationClasses ==
    {GithubFlavor, GithubForkFlavor, GitlabFlavor, BitbucketFlavor, ShadowActionFlavor}

AllClasses == {BuiltinFlavors[i] : i \in 1..Len(BuiltinFlavors)} \cup IntegrationClasses

\* Values callers pass as type, subtype and name ("model_deployer" and
\* "unknown" belong to no flavor class)
Types == {"event_source", "action", "model_deployer"}
SubTypes == {"scheduler", "webhook", "pipeline_run"}
Names == {"scheduler", "builtin", "github", "gitlab", "bitbucket", "unknown"}

\* Pagination arguments callers pass
Pages == (-1)..MaxPage
Sizes == (-1)..MaxSize

Keys == Types \X SubTypes \X Names

KeyOf(fc) == <<fc.TYPE, fc.SUBTYPE, fc.FLAVOR>>

----------------------------------------------------------------------------
(* The registry *)

RegistryEntry(flavor_class) ==
    [flavor_class |-> flavor_class, plugin_instance |-> None]

NoEntry == [flavor_class |-> FlavorClass("", "", "", "", ""), plugin_instance |-> None]

\* _get_registry_entry: self.plugin_flavors[_type][subtype][flavor_name]
GetRegistryEntry(reg, type, subtype, flavor_name) ==
    IF ~DictHas(reg, type) THEN [exc |-> "KeyError", value |-> NoEntry]
    ELSE IF ~DictHas(DictGet(reg, type), subtype)
         THEN [exc |-> "KeyError", value |-> NoEntry]
    ELSE IF ~DictHas(DictGet(DictGet(reg, type), subtype), flavor_name)
         THEN [exc |-> "KeyError", value |-> NoEntry]
    ELSE [exc |-> "none",
          value |-> DictGet(DictGet(DictGet(reg, type), subtype), flavor_name)]

\* register_plugin_flavor that stores the new entry over an existing one
RegisterPluginFlavorOverwriting(reg, flavor_class) ==
    LET reg1 == DictSetDefault(reg, flavor_class.TYPE, <<>>)
        subtypes == DictSetDefault(DictGet(reg1, flavor_class.TYPE),
                                   flavor_class.SUBTYPE, <<>>)
        old == DictGet(subtypes, flavor_class.SUBTYPE)
        flavors == IF DictHas(old, flavor_class.FLAVOR)
                   THEN DictMutated(old, flavor_class.FLAVOR,
                                    RegistryEntry(flavor_class))
                   ELSE Append(old, [k |-> flavor_class.FLAVOR,
                                     v |-> RegistryEntry(flavor_class)])
    IN  DictMutated(reg1, flavor_class.TYPE,
                    DictMutated(subtypes, flavor_class.SUBTYPE, flavors))

\* register_plugin_flavor: the registry after the call (the call returns None)
RegisterPluginFlavor(reg, flavor_class) ==
    IF GetRegistryEntry(reg, flavor_class.TYPE, flavor_class.SUBTYPE,
                        flavor_class.FLAVOR).exc = "KeyError"
    THEN LET reg1 == DictSetDefault(reg, flavor_class.TYPE, <<>>)
             subtypes == DictSetDefault(DictGet(reg1, flavor_class.TYPE),
                                        flavor_class.SUBTYPE, <<>>)
             flavors == DictSetDefault(DictGet(subtypes, flavor_class.SUBTYPE),
                                       flavor_class.FLAVOR,
                                       RegistryEntry(flavor_class))
         IN  DictMutated(reg1, flavor_class.TYPE,
                         DictMutated(subtypes, flavor_class.SUBTYPE, flavors))
    ELSE reg

RECURSIVE RegisterAll(_, _)
RegisterAll(reg, classes) ==
    IF classes = <<>> THEN reg
    ELSE RegisterAll(RegisterPluginFlavor(reg, Head(classes)), Tail(classes))

\* register_plugin_flavors that registers the integration flavors first
RegisterPluginFlavorsIntegrationsFirst(reg, builtin, integration) ==
    RegisterAll(RegisterAll(reg, integration), builtin)

\* register_plugin_flavors
RegisterPluginFlavors(reg, builtin, integration) ==
    RegisterAll(RegisterAll(reg, builtin), integration)

\* __init__
NewRegistry(builtin, integration) ==
    RegisterPluginFlavors(<<>>, builtin, integration)

\* the keys of all entries, in the iteration order of initialize_plugins' loops
RECURSIVE Concat(_)
Concat(seqs) == IF seqs = <<>> THEN <<>> ELSE Head(seqs) \o Concat(Tail(seqs))

EntryKeys(reg) ==
    Concat([i \in 1..Len(reg) |->
        Concat([j \in 1..Len(reg[i].v) |->
            [m \in 1..Len(reg[i].v[j].v) |->
                <<reg[i].k, reg[i].v[j].k, reg[i].v[j].v[m].k>>]])])

Range(seq) == {seq[i] : i \in 1..Len(seq)}

Registered(reg, key) == key \in Range(EntryKeys(reg))

\* get_flavor_class
GetFlavorClass(reg, type, subtype, name) ==
    LET entry == GetRegistryEntry(reg, type, subtype, name)
    IN  IF entry.exc = "KeyError"
        THEN [exc |-> "KeyError", value |-> NoEntry.flavor_class]
        ELSE [exc |-> "none", value |-> entry.value.flavor_class]

\* get_plugin that looks the entry up leniently and so reports a missing key
\* as a plugin that was not initialized
GetPluginLenient(reg, type, subtype, name) ==
    LET plugin_entry == GetRegistryEntry(reg, type, subtype, name)
    IN  IF plugin_entry.value.plugin_instance = None
        THEN [exc |-> "RuntimeError", value |-> None]
        ELSE [exc |-> "none", value |-> plugin_entry.value.plugin_instance]

\* get_plugin that calls PLUGIN_CLASS() itself instead of returning the
\* cached object (the new object has an identity no cached object has)
GetPluginFresh(reg, type, subtype, name) ==
    LET plugin_entry == GetRegistryEntry(reg, type, subtype, name)
    IN  IF plugin_entry.exc = "KeyError"
        THEN [exc |-> "KeyError", value |-> None]
        ELSE IF plugin_entry.value.plugin_instance = None
             THEN [exc |-> "RuntimeError", value |-> None]
             ELSE [exc |-> "none",
                   value |-> [cls |-> plugin_entry.value.flavor_class.PLUGIN_CLASS,
                              id |-> 0 - 1]]

\* get_plugin
GetPlugin(reg, type, subtype, name) ==
    LET plugin_entry == GetRegistryEntry(reg, type, subtype, name)
    IN  IF plugin_entry.exc = "KeyError"
        THEN [exc |-> "KeyError", value |-> None]
        ELSE IF plugin_entry.value.plugin_instance = None
             THEN [exc |-> "RuntimeError", value |-> None]
             ELSE [exc |-> "none", value |-> plugin_entry.value.plugin_instance]

\* registry_entry.plugin_instance = registry_entry.flavor_class.PLUGIN_CLASS()
\* for the entry under key; id is the identity of the object created
InitializeEntry(reg, key, id) ==
    LET subtypes == DictGet(reg, key[1])
        flavors == DictGet(subtypes, key[2])
        registry_entry == DictGet(flavors, key[3])
        instance == [cls |-> registry_entry.flavor_class.PLUGIN_CLASS, id |-> id]
    IN  DictMutated(reg, key[1],
            DictMutated(subtypes, key[2],
                DictMutated(flavors, key[3],
                    [flavor_class |-> registry_entry.flavor_class,
                     plugin_instance |-> instance])))

RECURSIVE InitializeFrom(_, _, _, _)
InitializeFrom(reg, keys, pos, id) ==
    IF pos > Len(keys) THEN reg
    ELSE InitializeFrom(InitializeEntry(reg, keys[pos], id), keys, pos + 1, id + 1)

\* initialize_plugins whose loop leaves out the first entry
InitializePluginsSkipping(reg, id) == InitializeFrom(reg, EntryKeys(reg), 2, id)

\* initialize_plugins: the registry after the call; id is the identity of the
\* first object it creates
InitializePlugins(reg, id) == InitializeFrom(reg, EntryKeys(reg), 1, id)

----------------------------------------------------------------------------
(* Enumeration and pagination *)

\* _types
RegistryTypes(reg) == DictKeys(reg)

\* list_subtypes_within_type
ListSubtypesWithinType(reg, type) ==
    IF DictHas(reg, type)
    THEN [exc |-> "none", value |-> DictKeys(DictGet(reg, type))]
    ELSE [exc |-> "KeyError", value |-> <<>>]

\* _flavor_entries
FlavorEntries(reg, type, subtype) ==
    IF DictHas(reg, type) /\ DictHas(DictGet(reg, type), subtype)
    THEN DictGet(DictGet(reg, type), subtype)
    ELSE <<>>

\* list_available_flavor_names_for_type_and_subtype that lets page 0 through
ListAvailableFlavorNamesLoose(reg, type, subtype, page, size) ==
    LET flavor_names == DictKeys(FlavorEntries(reg, type, subtype))
    IN  IF page >= 0 /\ size > 0
        THEN LET start == page * size
                 end == start + size
             IN  [exc |-> "none", value |-> PySlice(flavor_names, start, end)]
        ELSE [exc |-> "RuntimeError", value |-> <<>>]

\* list_available_flavor_names_for_type_and_subtype
ListAvailableFlavorNames(reg, type, subtype, page, size) ==
    LET flavor_names == DictKeys(FlavorEntries(reg, type, subtype))
    IN  IF page > 0 /\ size > 0
        THEN LET start == page * size
                 end == start + size
             IN  [exc |-> "none", value |-> PySlice(flavor_names, start, end)]
        ELSE [exc |-> "RuntimeError", value |-> <<>>]

\* list_available_flavors_for_type_and_subtype
ListAvailableFlavors(reg, type, subtype) ==
    LET entries == DictValues(FlavorEntries(reg, type, subtype))
    IN  [i \in 1..Len(entries) |-> entries[i].flavor_class]

\* flavor.get_flavor_response_model(hydrate=hydrate)
FlavorResponse(flavor, hydrate) ==
    [name |-> flavor.FLAVOR, type |-> flavor.TYPE, subtype |-> flavor.SUBTYPE,
     flavor_class |-> flavor.name, hydrated |-> hydrate]

\* Page(index=..., max_size=..., total_pages=..., total=..., items=...);
\* total_pages is the quotient num/den the caller computed
Page(index, max_size, total_pages, total, items) ==
    [index |-> index, max_size |-> max_size, total_pages |-> total_pages,
     total |-> total, items |-> items]

NoPage == Page(0, 0, [num |-> 0, den |-> 1], 0, <<>>)

\* list_available_flavor_responses_for_type_and_subtype that computes its
\* offset as list_available_flavor_names_for_type_and_subtype does
ListAvailableFlavorResponsesShifted(reg, type, subtype, page, size, hydrate) ==
    LET flavors == ListAvailableFlavors(reg, type, subtype)
        total == Len(flavors)
    IN  IF size = 0
        THEN [exc |-> "ZeroDivisionError", value |-> NoPage]
        ELSE LET total_pages == [num |-> total, den |-> size]
                 start == page * size
                 end == start + size
                 page_items ==
                     PySlice([i \in 1..Len(flavors) |->
                                  FlavorResponse(flavors[i], hydrate)],
                             start, end)
             IN  [exc |-> "none",
                  value |-> Page(page, size, total_pages, total, page_items)]

\* list_available_flavor_responses_for_type_and_subtype
ListAvailableFlavorResponses(reg, type, subtype, page, size, hydrate) ==
    LET flavors == ListAvailableFlavors(reg, type, subtype)
        total == Len(flavors)
    IN  IF size = 0
        THEN [exc |-> "ZeroDivisionError", value |-> NoPage]
        ELSE LET total_pages == [num |-> total, den |-> size]
                 start == (page - 1) * size
                 end == start + size
                 page_items ==
                     PySlice([i \in 1..Len(flavors) |->
                                  FlavorResponse(flavors[i], hydrate)],
                             start, end)
             IN  [exc |-> "none",
                  value |-> Page(page, size, total_pages, total, page_items)]

----------------------------------------------------------------------------
(* Trigger models (src/src/zenml/models/v2/core/trigger.py).  A field of   *)
(* type Optional[T] is <<>> for None and <<v>> for the value v.  The       *)
(* metadata store and the response base class are collaborators of the     *)
(* models: the store holds the trigger record, applies updates to it and   *)
(* builds the responses.                                                   *)

Unset == <<>>

Some(v) == <<v>>

Optional(S) == {Unset} \cup {Some(v) : v \in S}

TriggerNames == {"t1", "t2"}
Descriptions == {"", "d"}
EventFilters == {<<>>, <<[k |-> "branch", v |-> "main"]>>}
ActionConfigs == {<<[k |-> "pipeline", v |-> "train"]>>,
                  <<[k |-> "pipeline", v |-> "deploy"]>>}
EventSourceIds == {"es1", "es2"}

TriggerBase(name, description, event_source_id, event_filter, action, action_flavor, action_subtype) ==
    [name |-> name, description |-> description,
     event_source_id |-> event_source_id, event_filter |-> event_filter,
     action |-> action, action_flavor |-> action_flavor,
     action_subtype |-> action_subtype]

\* the record the store creates for a TriggerRequest
CreateTrigger(request) ==
    [id |-> "trigger1", name |-> request.name, description |-> request.description,
     event_source_id |-> request.event_source_id,
     event_filter |-> request.event_filter, action |-> request.action,
     action_flavor |-> request.action_flavor,
     action_subtype |-> request.action_subtype, is_active |-> TRUE]

\* as TriggerUpdate, with the description defaulting to "" as in TriggerBase
TriggerUpdateDescriptionDefault(name, description, event_filter, action, is_active) ==
    [name |-> name,
     description |-> IF description = Unset THEN Some("") ELSE description,
     event_filter |-> event_filter, action |-> action, is_active |-> is_active]

\* TriggerUpdate(...): each argument is the Optional value passed for the
\* field, Unset (the default, None) when none was passed
TriggerUpdate(name, description, event_filter, action, is_active) ==
    [name |-> name, description |-> description, event_filter |-> event_filter,
     action |-> action, is_active |-> is_active]

\* the store applying an update to a record: every field the update carries
\* with a value other than None replaces the record's
ApplyUpdate(record, update) ==
    [id |-> record.id,
     name |-> IF update.name # Unset THEN update.name[1] ELSE record.name,
     description |-> IF update.description # Unset THEN update.description[1]
                     ELSE record.description,
     event_source_id |-> record.event_source_id,
     event_filter |-> IF update.event_filter # Unset THEN update.event_filter[1]
                      ELSE record.event_filter,
     action |-> IF update.action # Unset THEN update.action[1] ELSE record.action,
     action_flavor |-> record.action_flavor,
     action_subtype |-> record.action_subtype,
     is_active |-> IF update.is_active # Unset THEN update.is_active[1]
                   ELSE record.is_active]

TriggerResponseBody(event_source_flavor, action_flavor, action_subtype, is_active) ==
    [event_source_flavor |-> event_source_flavor, action_flavor |-> action_flavor,
     action_subtype |-> action_subtype, is_active |-> is_active]

TriggerResponseMetadata(event_filter, action, description) ==
    [event_filter |-> event_filter, action |-> action, description |-> description]

TriggerResponseResources(event_source) == [event_source |-> event_source]

\* the event source of an id, as the store resolves it
EventSourceResponse(id) ==
    [cls |-> "EventSourceResponse", id |-> id,
     flavor |-> IF id = "es1" THEN "github" ELSE "scheduler"]

\* body, metadata and resources are Optional facets
TriggerResponse(id, name, body, metadata, resources) ==
    [id |-> id, name |-> name, body |-> body, metadata |-> metadata,
     resources |-> resources]

\* the response the store builds from a record: the body alone, or all three
\* facets when hydrate is set
ToModel(record, hydrate) ==
    TriggerResponse(
        record.id, record.name,
        Some(TriggerResponseBody(EventSourceResponse(record.event_source_id).flavor,
                                 record.action_flavor, record.action_subtype,
                                 record.is_active)),
        IF hydrate
        THEN Some(TriggerResponseMetadata(record.event_filter, record.action,
                                          record.description))
        ELSE Unset,
        IF hydrate
        THEN Some(TriggerResponseResources(EventSourceResponse(record.event_source_id)))
        ELSE Unset)

\* zen_store.get_trigger(id): the hydrated response of the stored record
GetTrigger(record, id) ==
    IF record.id = id THEN [exc |-> "none", value |-> Some(ToModel(record, TRUE))]
    ELSE [exc |-> "KeyError", value |-> Unset]

\* the facet getters of the response base class
GetBody(resp) ==
    IF resp.body = Unset THEN [exc |-> "NotHydrated", value |-> None]
    ELSE [exc |-> "none", value |-> resp.body[1]]

GetMetadata(resp) ==
    IF resp.metadata = Unset THEN [exc |-> "NotHydrated", value |-> None]
    ELSE [exc |-> "none", value |-> resp.metadata[1]]

GetResources(resp) ==
    IF resp.resources = Unset THEN [exc |-> "NotHydrated", value |-> None]
    ELSE [exc |-> "none", value |-> resp.resources[1]]

GetHydratedVersion(resp, record) == GetTrigger(record, resp.id)

\* the properties of TriggerResponse
EventSourceFlavor(resp) ==
    LET body == GetBody(resp)
    IN  IF body.exc # "none" THEN body
        ELSE [exc |-> "none", value |-> body.value.event_source_flavor]

ActionFlavor(resp) ==
    LET body == GetBody(resp)
    IN  IF body.exc # "none" THEN body
        ELSE [exc |-> "none", value |-> body.value.action_flavor]

\* as the event_filter property, with an empty filter for an absent facet
EventFilterDefaulting(resp) ==
    IF resp.metadata = Unset THEN [exc |-> "none", value |-> <<>>]
    ELSE [exc |-> "none", value |-> resp.metadata[1].event_filter]

EventFilter(resp) ==
    LET metadata == GetMetadata(resp)
    IN  IF metadata.exc # "none" THEN metadata
        ELSE [exc |-> "none", value |-> metadata.value.event_filter]

Action(resp) ==
    LET metadata == GetMetadata(resp)
    IN  IF metadata.exc # "none" THEN metadata
        ELSE [exc |-> "none", value |-> metadata.value.action]

Description(resp) ==
    LET metadata == GetMetadata(resp)
    IN  IF metadata.exc # "none" THEN metadata
        ELSE [exc |-> "none", value |-> metadata.value.description]

EventSource(resp) ==
    LET resources == GetResources(resp)
    IN  IF resources.exc # "none" THEN resources
        ELSE [exc |-> "none", value |-> resources.value.event_source]

Accessors == {"event_source_flavor", "action_flavor", "event_filter", "action",
              "description", "event_source"}

Access(resp, property) ==
    CASE property = "event_source_flavor" -> EventSourceFlavor(resp)
      [] property = "action_flavor" -> ActionFlavor(resp)
      [] property = "event_filter" -> EventFilter(resp)
      [] property = "action" -> Action(resp)
      [] property = "description" -> Description(resp)
      [] property = "event_source" -> EventSource(resp)

\* the requests the trigger of the store can have been created from
TriggerRequests ==
    {TriggerBase(name, description, event_source_id, <<>>,
                 <<[k |-> "pipeline", v |-> "train"]>>, "builtin", "pipeline_run") :
         name \in TriggerNames, description \in Descriptions,
         event_source_id \in EventSourceIds}

----------------------------------------------------------------------------
(* Initial states: the registry as its constructor leaves it, for the      *)
(* flavors the integrations contribute.                                    *)

RECURSIVE SeqsUpTo(_, _)
SeqsUpTo(S, n) ==
    IF n = 0 THEN {<<>>}
    ELSE LET shorter == SeqsUpTo(S, n - 1)
         IN  shorter \cup {Append(q, x) : q \in shorter, x \in S}

ClassKeys == {KeyOf(fc) : fc \in AllClasses}

\* the name of the first class of a sequence of register_plugin_flavor
\* arguments that has the key, "" if there is none
EarliestCall(classes, key) ==
    IF \E i \in 1..Len(classes) : KeyOf(classes[i]) = key
    THEN LET first == CHOOSE i \in 1..Len(classes) :
                 /\ KeyOf(classes[i]) = key
                 /\ \A j \in 1..(i - 1) : KeyOf(classes[j]) # key
         IN  classes[first].name
    ELSE ""

\* the instance stored under a registered key, None for any other key
InstanceOf(reg, key) ==
    GetRegistryEntry(reg, key[1], key[2], key[3]).value.plugin_instance

\* the import of the module completed, and its last statement constructed
\* the registry
Loaded == module_exc = "none"

\* The def of list_available_flavor_responses_for_type_and_subtype names
\* BasePluginFlavorResponse in its return annotation, a name the module binds
\* under TYPE_CHECKING only.  An interpreter that evaluates annotations when
\* the def executes raises NameError there: the class body is abandoned and
\* no registry is constructed.  An interpreter that defers the evaluation of
\* annotations completes the import, whose last statement constructs the
\* registry.
InitRegistry ==
    /\ module_exc \in {"none", "NameError"}
    /\ builtin_flavors = IF Loaded THEN BuiltinFlavors ELSE <<>>
    /\ integration_flavors \in IF Loaded
                                THEN SeqsUpTo(IntegrationClasses, MaxIntegrations)
                                ELSE {<<>>}
    /\ plugin_flavors = IF Loaded
                        THEN NewRegistry(builtin_flavors, integration_flavors)
                        ELSE <<>>
    /\ first_call = [k \in ClassKeys |->
                        EarliestCall(builtin_flavors \o integration_flavors, k)]
    /\ register_calls = 0
    /\ next_id = 1
    /\ init_count = 0
    /\ init_keys = {}
    /\ inst_count = [k \in ClassKeys |-> 0]
    /\ created = [k \in ClassKeys |-> None]
    /\ first_created = [k \in ClassKeys |-> None]
    /\ init_pos = 0
    /\ last = Idle

\* the store holds one trigger, of which no client holds a response
Init ==
    /\ InitRegistry
    /\ trigger = CreateTrigger(TriggerBase("t1", "", "es1", <<>>,
                                           <<[k |-> "pipeline", v |-> "train"]>>,
                                           "builtin", "pipeline_run"))
    /\ response = Unset

----------------------------------------------------------------------------
(* Calls.  A caller makes a call, holds its result in last, and takes it   *)
(* away (Return) before the next call is made.                             *)

Return ==
    /\ last.op # "idle"
    /\ last' = Idle
    /\ UNCHANGED <<module_exc, plugin_flavors, builtin_flavors, integration_flavors, first_call,
                   register_calls, next_id, init_count, init_keys, inst_count,
                   created, first_created, init_pos, trigger, response>>

Register(flavor_class) ==
    /\ last.op = "idle"
    /\ Loaded
    /\ init_pos = 0
    /\ register_calls < MaxRegisterCalls
    /\ plugin_flavors' = RegisterPluginFlavor(plugin_flavors, flavor_class)
    /\ register_calls' = register_calls + 1
    /\ first_call' = [first_call EXCEPT ![KeyOf(flavor_class)] =
                          IF @ = "" THEN flavor_class.name ELSE @]
    /\ last' = [op |-> "register_plugin_flavor", args |-> KeyOf(flavor_class),
                flavor_class |-> flavor_class.name, exc |-> "none", value |-> None]
    /\ UNCHANGED <<module_exc, builtin_flavors, integration_flavors, next_id, init_count,
                   init_keys, inst_count, created, first_created, init_pos,
                   trigger, response>>

\* the names of the classes of a sequence
ClassNames(classes) == [i \in 1..Len(classes) |-> classes[i].name]

\* register_plugin_flavors called on the constructed registry, when the
\* integrations contribute the flavors integration: it passes the built-in
\* flavors and then each of these to register_plugin_flavor
CallRegisterPluginFlavors(integration) ==
    /\ last.op = "idle"
    /\ Loaded
    /\ init_pos = 0
    /\ register_calls + Len(integration) <= MaxRegisterCalls
    /\ plugin_flavors' = RegisterPluginFlavors(plugin_flavors, BuiltinFlavors,
                                               integration)
    /\ register_calls' = register_calls + Len(integration)
    /\ first_call' = [k \in ClassKeys |->
                          IF first_call[k] = ""
                          THEN EarliestCall(BuiltinFlavors \o integration, k)
                          ELSE first_call[k]]
    /\ last' = [op |-> "register_plugin_flavors", args |-> ClassNames(integration),
                exc |-> "none", value |-> None]
    /\ UNCHANGED <<module_exc, builtin_flavors, integration_flavors, next_id,
                   init_count, init_keys, inst_count, created, first_created,
                   init_pos, trigger, response>>

\* the history of PLUGIN_CLASS() calls, read off the objects (those with an
\* identity from old_id on) that a step stored in the registry
Instantiated(reg, old_id) ==
    /\ inst_count' = [k \in ClassKeys |->
           IF InstanceOf(reg, k).id >= old_id THEN inst_count[k] + 1
           ELSE inst_count[k]]
    /\ created' = [k \in ClassKeys |->
           IF InstanceOf(reg, k).id >= old_id THEN InstanceOf(reg, k)
           ELSE created[k]]
    /\ first_created' = [k \in ClassKeys |->
           IF InstanceOf(reg, k).id >= old_id /\ first_created[k] = None
           THEN InstanceOf(reg, k)
           ELSE first_created[k]]

Initialize ==
    /\ last.op = "idle"
    /\ Loaded
    /\ init_pos = 0
    /\ init_count < MaxInits
    /\ plugin_flavors' = InitializePlugins(plugin_flavors, next_id)
    /\ next_id' = next_id + Len(EntryKeys(plugin_flavors))
    /\ init_count' = init_count + 1
    /\ init_keys' = Range(EntryKeys(plugin_flavors))
    /\ Instantiated(plugin_flavors', next_id)
    /\ last' = [op |-> "initialize_plugins", args |-> <<>>, exc |-> "none",
                value |-> None]
    /\ UNCHANGED <<module_exc, builtin_flavors, integration_flavors, first_call, register_calls,
                   init_pos, trigger, response>>

\* the effect of a call that reads the registry and changes nothing
Query(result) ==
    /\ last' = result
    /\ UNCHANGED <<module_exc, plugin_flavors, builtin_flavors, integration_flavors, first_call,
                   register_calls, next_id, init_count, init_keys, inst_count,
                   created, first_created, init_pos, trigger, response>>

\* Keys the calls below look up: every key some flavor class has, and every
\* way of missing (type absent, subtype absent under a type, name absent)
LookupKeys ==
    ClassKeys \cup {<<"model_deployer", "webhook", "github">>,
                    <<"action", "webhook", "github">>,
                    <<"event_source", "scheduler", "unknown">>}

CallGetFlavorClass(key) ==
    /\ last.op = "idle"
    /\ Loaded
    /\ Query(Called("get_flavor_class", key,
                    GetFlavorClass(plugin_flavors, key[1], key[2], key[3])))

\* some registered entries have a plugin instance and others have none
PartiallyInitialized(reg) ==
    /\ \E k \in Range(EntryKeys(reg)) : InstanceOf(reg, k) # None
    /\ \E k \in Range(EntryKeys(reg)) : InstanceOf(reg, k) = None

\* get_plugin; the result records whether the call ran while
\* initialize_plugins was running, and whether the registry was then
\* partially initialized
CallGetPlugin(key) ==
    /\ last.op = "idle"
    /\ Loaded
    /\ LET result == GetPlugin(plugin_flavors, key[1], key[2], key[3])
       IN  Query([op |-> "get_plugin", args |-> key, exc |-> result.exc,
                  value |-> result.value, during_init |-> init_pos > 0,
                  partial |-> PartiallyInitialized(plugin_flavors)])

Next ==
    \/ \E flavor_class \in AllClasses : Register(flavor_class)
    \/ \E integration \in SeqsUpTo(IntegrationClasses, MaxIntegrations) :
           CallRegisterPluginFlavors(integration)
    \/ Initialize
    \/ \E key \in LookupKeys : CallGetFlavorClass(key)
    \/ \E key \in LookupKeys : CallGetPlugin(key)
    \/ Return

Spec == Init /\ [][Next]_vars

----------------------------------------------------------------------------
(* The enumeration calls *)

\* (type, subtype) pairs the calls below list: pairs that can hold flavors, a
\* subtype absent under its type, and an absent type
ListPairs ==
    {<<"event_source", "webhook">>, <<"action", "pipeline_run">>,
     <<"event_source", "pipeline_run">>, <<"model_deployer", "webhook">>}

CallListSubtypes(type) ==
    /\ last.op = "idle"
    /\ Loaded
    /\ Query(Called("list_subtypes_within_type", <<type>>,
                    ListSubtypesWithinType(plugin_flavors, type)))

CallListFlavors(pair) ==
    /\ last.op = "idle"
    /\ Loaded
    /\ Query([op |-> "list_available_flavors_for_type_and_subtype",
              args |-> pair, exc |-> "none",
              value |-> ListAvailableFlavors(plugin_flavors, pair[1], pair[2])])

CallListNames(pair, page, size) ==
    /\ last.op = "idle"
    /\ Loaded
    /\ Query(Called("list_available_flavor_names_for_type_and_subtype",
                    <<pair[1], pair[2], page, size>>,
                    ListAvailableFlavorNames(plugin_flavors, pair[1], pair[2],
                                             page, size)))

CallListResponses(pair, page, size, hydrate) ==
    /\ last.op = "idle"
    /\ Loaded
    /\ Query(Called("list_available_flavor_responses_for_type_and_subtype",
                    <<pair[1], pair[2], page, size, hydrate>>,
                    ListAvailableFlavorResponses(plugin_flavors, pair[1], pair[2],
                                                 page, size, hydrate)))

NextList ==
    \/ \E flavor_class \in AllClasses : Register(flavor_class)
    \/ \E integration \in SeqsUpTo(IntegrationClasses, MaxIntegrations) :
           CallRegisterPluginFlavors(integration)
    \/ \E type \in Types : CallListSubtypes(type)
    \/ \E pair \in ListPairs : CallListFlavors(pair)
    \/ \E pair \in ListPairs, page \in Pages, size \in Sizes :
           CallListNames(pair, page, size)
    \/ \E pair \in ListPairs, page \in Pages, size \in Sizes, hydrate \in BOOLEAN :
           CallListResponses(pair, page, size, hydrate)
    \/ Return

SpecList == Init /\ [][NextList]_vars

----------------------------------------------------------------------------
(* initialize_plugins running in one thread, entry by entry, while reader  *)
(* threads call get_plugin.  Nothing in the registry orders a reader's     *)
(* call with respect to the assignments of the loop.                       *)

BeginInitialize ==
    /\ Loaded
    /\ init_pos = 0
    /\ init_count < MaxInits
    /\ init_pos' = 1
    /\ UNCHANGED <<module_exc, plugin_flavors, builtin_flavors, integration_flavors, first_call,
                   register_calls, next_id, init_count, init_keys, inst_count,
                   created, first_created, trigger, response, last>>

\* one iteration of the innermost loop of initialize_plugins
InitializeStep ==
    /\ init_pos > 0
    /\ plugin_flavors' = InitializeEntry(plugin_flavors,
                                         EntryKeys(plugin_flavors)[init_pos], next_id)
    /\ next_id' = next_id + 1
    /\ Instantiated(plugin_flavors', next_id)
    /\ IF init_pos = Len(EntryKeys(plugin_flavors))
       THEN /\ init_pos' = 0
            /\ init_count' = init_count + 1
            /\ init_keys' = Range(EntryKeys(plugin_flavors))
       ELSE /\ init_pos' = init_pos + 1
            /\ UNCHANGED <<init_count, init_keys>>
    /\ UNCHANGED <<module_exc, builtin_flavors, integration_flavors, first_call, register_calls,
                   trigger, response, last>>

NextConcurrent ==
    \/ BeginInitialize
    \/ InitializeStep
    \/ \E key \in LookupKeys : CallGetPlugin(key)
    \/ Return

SpecConcurrent == Init /\ [][NextConcurrent]_vars

----------------------------------------------------------------------------
(* prediction_service_loader                                               *)
(* (src/examples/vertex_deployer/steps/prediction_service_loader_step.py). *)
(* The model deployer is an external collaborator: what its                *)
(* find_model_server call returns is an input of the step.  A message is   *)
(* the sequence of the pieces its f-string is made of.                     *)

\* a deployment service the model deployer knows
Service(id) == [cls |-> "VertexDeploymentService", id |-> id]

\* the keyword arguments of a find_model_server call
FindModelServerCall(pipeline_name, pipeline_step_name, model_name, running) ==
    [pipeline_name |-> pipeline_name, pipeline_step_name |-> pipeline_step_name,
     model_name |-> model_name, running |-> running]

\* the message of the RuntimeError the step raises
NoServiceMessage(pipeline_name, pipeline_step_name, model_name) ==
    <<"No MLflow prediction service deployed by the ", pipeline_step_name,
      " step in the ", pipeline_name, " pipeline for the '", model_name,
      "' model is currently running.">>

\* as the step, but taking the last of the services found
PredictionServiceLoaderLast(pipeline_name, pipeline_step_name, running, model_name, existing_services) ==
    [find_calls |-> <<FindModelServerCall(pipeline_name, pipeline_step_name,
                                          model_name, running)>>,
     exc |-> IF existing_services # <<>> THEN "none" ELSE "RuntimeError",
     value |-> IF existing_services # <<>>
               THEN existing_services[Len(existing_services)] ELSE None,
     message |-> IF existing_services # <<>> THEN <<>>
                 ELSE NoServiceMessage(pipeline_name, pipeline_step_name, model_name)]

\* the step, when its find_model_server call returns existing_services: the
\* find_model_server calls it made, and its result
PredictionServiceLoader(pipeline_name, pipeline_step_name, running, model_name, existing_services) ==
    [find_calls |-> <<FindModelServerCall(pipeline_name, pipeline_step_name,
                                          model_name, running)>>,
     exc |-> IF existing_services # <<>> THEN "none" ELSE "RuntimeError",
     value |-> IF existing_services # <<>> THEN existing_services[1] ELSE None,
     message |-> IF existing_services # <<>> THEN <<>>
                 ELSE NoServiceMessage(pipeline_name, pipeline_step_name, model_name)]

PipelineNames == {"p", "deployment_pipeline"}
StepNames == {"s", "model_deployer_step"}
ModelNames == {"m", "model"}

\* the services the model deployer can return, in every order
FoundServices == SeqsUpTo({Service(i) : i \in 1..MaxServices}, MaxServices)

CallPredictionServiceLoader(pipeline_name, pipeline_step_name, running, model_name, existing_services) ==
    /\ last.op = "idle"
    /\ LET result == PredictionServiceLoader(pipeline_name, pipeline_step_name,
                                             running, model_name, existing_services)
       IN  Query([op |-> "prediction_service_loader",
                  args |-> <<pipeline_name, pipeline_step_name, running, model_name>>,
                  exc |-> result.exc, value |-> result.value,
                  found |-> existing_services, find_calls |-> result.find_calls,
                  message |-> result.message])

InitLoader ==
    /\ Init
    /\ integration_flavors = <<>>

NextLoader ==
    \/ \E pipeline_name \in PipelineNames, pipeline_step_name \in StepNames,
          running \in BOOLEAN, model_name \in ModelNames,
          existing_services \in FoundServices :
           CallPredictionServiceLoader(pipeline_name, pipeline_step_name, running,
                                       model_name, existing_services)
    \/ Return

SpecLoader == InitLoader /\ [][NextLoader]_vars

----------------------------------------------------------------------------
(* A client of the metadata store: it lists the trigger (an unhydrated     *)
(* response), hydrates the response it holds, reads the response's         *)
(* properties, and updates the trigger.                                    *)

registry_vars == <<module_exc, plugin_flavors, builtin_flavors, integration_flavors, first_call,
                   register_calls, next_id, init_count, init_keys, inst_count,
                   created, first_created, init_pos>>

\* list_triggers: the client gets the unhydrated response of the trigger
CallListTriggers ==
    /\ last.op = "idle"
    /\ response' = Some(ToModel(trigger, FALSE))
    /\ last' = [op |-> "list_triggers", args |-> <<>>, exc |-> "none", value |-> None]
    /\ UNCHANGED <<registry_vars, trigger>>

\* response.get_hydrated_version(): the client keeps the response returned
CallGetHydratedVersion ==
    /\ last.op = "idle"
    /\ response # Unset
    /\ LET result == GetHydratedVersion(response[1], trigger)
       IN  /\ response' = IF result.exc = "none" THEN result.value ELSE response
           /\ last' = [op |-> "get_hydrated_version", args |-> <<>>,
                       exc |-> result.exc, value |-> None]
    /\ UNCHANGED <<registry_vars, trigger>>

\* reading a property of the response; the result records whether the
\* response carried its metadata and resources
CallAccess(property) ==
    /\ last.op = "idle"
    /\ response # Unset
    /\ LET result == Access(response[1], property)
       IN  Query([op |-> property, args |-> <<>>, exc |-> result.exc,
                  value |-> result.value,
                  hydrated |-> /\ response[1].metadata # Unset
                               /\ response[1].resources # Unset])

\* update_trigger: the store applies the TriggerUpdate built from the fields
\* the caller passed (Unset: not passed); the result records the record as it
\* was
CallUpdateTrigger(name, description, event_filter, action, is_active) ==
    /\ last.op = "idle"
    /\ LET update == TriggerUpdate(name, description, event_filter, action, is_active)
       IN  /\ trigger' = ApplyUpdate(trigger, update)
           /\ last' = [op |-> "update_trigger",
                       args |-> <<name, description, event_filter, action,
                                  is_active>>,
                       exc |-> "none", value |-> None, before |-> trigger]
    /\ UNCHANGED <<registry_vars, response>>

InitTrigger ==
    /\ InitRegistry
    /\ integration_flavors = <<>>
    /\ trigger \in {CreateTrigger(request) : request \in TriggerRequests}
    /\ response = Unset

NextTrigger ==
    \/ CallListTriggers
    \/ CallGetHydratedVersion
    \/ \E property \in Accessors : CallAccess(property)
    \/ \E name \in Optional(TriggerNames), description \in Optional(Descriptions),
          event_filter \in Optional(EventFilters), action \in Optional(ActionConfigs),
          is_active \in Optional(BOOLEAN) :
           CallUpdateTrigger(name, description, event_filter, action, is_active)
    \/ Return

SpecTrigger == InitTrigger /\ [][NextTrigger]_vars

----------------------------------------------------------------------------
(* Properties *)

NoDuplicateKeys(d) == \A i, j \in 1..Len(d) : d[i].k = d[j].k => i = j

\* the name of the flavor class registered under a key, "" if there is none
RegisteredClass(reg, key) ==
    IF Registered(reg, key)
    THEN GetRegistryEntry(reg, key[1], key[2], key[3]).value.flavor_class.name
    ELSE ""

C1_OneEntryPerKey ==
    /\ NoDuplicateKeys(plugin_flavors)
    /\ \A i \in 1..Len(plugin_flavors) :
         /\ NoDuplicateKeys(plugin_flavors[i].v)
         /\ \A j \in 1..Len(plugin_flavors[i].v) :
              NoDuplicateKeys(plugin_flavors[i].v[j].v)
    /\ LET keys == EntryKeys(plugin_flavors)
       IN  \A i, j \in 1..Len(keys) : keys[i] = keys[j] => i = j
    /\ Range(EntryKeys(plugin_flavors)) = {k \in ClassKeys : first_call[k] # ""}
    /\ \A k \in ClassKeys : RegisteredClass(plugin_flavors, k) = first_call[k]

C1_DuplicateCallIsNoOp ==
    (/\ last.op = "idle"
     /\ last'.op = "register_plugin_flavor"
     /\ Registered(plugin_flavors, last'.args))
    => (plugin_flavors' = plugin_flavors /\ last'.exc = "none")

\* C1: the registry holds at most one entry per (type, subtype, flavor name)
\* key, the entry's flavor class is the one the earliest register call for
\* the key passed, and a register call for a key that is already registered
\* raises nothing and leaves the registry as it was.
C1_FirstRegistrationWins ==
    [](C1_OneEntryPerKey) /\ [][C1_DuplicateCallIsNoOp]_vars

\* a register call has just passed a class for a key that an earlier call
\* registered with another class
C1_Witness ==
    /\ last.op = "register_plugin_flavor"
    /\ first_call[last.args] # last.flavor_class
    /\ RegisteredClass(plugin_flavors, last.args) = first_call[last.args]

C2_LookupFails ==
    /\ \A key \in Keys \ Range(EntryKeys(plugin_flavors)) :
           /\ GetFlavorClass(plugin_flavors, key[1], key[2], key[3]).exc = "KeyError"
           /\ GetPlugin(plugin_flavors, key[1], key[2], key[3]).exc = "KeyError"
    /\ (/\ last.op \in {"get_flavor_class", "get_plugin"}
        /\ ~Registered(plugin_flavors, last.args))
       => last.exc = "KeyError"

C2_LookupChangesNothing ==
    (last.op = "idle" /\ last'.op \in {"get_flavor_class", "get_plugin"})
    => plugin_flavors' = plugin_flavors

\* C2: for every key that is not registered (type absent, subtype absent
\* under its type, or name absent under its subtype) get_flavor_class and
\* get_plugin fail with KeyError, before and after initialize_plugins, and
\* the lookup leaves the registry as it was.
C2_UnregisteredKeyNotFound ==
    [](C2_LookupFails) /\ [][C2_LookupChangesNothing]_vars

\* after initialize_plugins, get_plugin has just failed with KeyError for a
\* subtype that is absent under a type that is present
C2_Witness ==
    /\ init_count > 0
    /\ last.op = "get_plugin"
    /\ last.exc = "KeyError"
    /\ DictHas(plugin_flavors, last.args[1])
    /\ ~DictHas(DictGet(plugin_flavors, last.args[1]), last.args[2])

\* C3: for every registered key, get_plugin fails with RuntimeError (not with
\* the KeyError of a missing key) as long as initialize_plugins has not run,
\* and returns a plugin instance that is not None once an initialize_plugins
\* call that found the key registered has completed.
C3_UninitializedThenInstance ==
    /\ \A key \in Range(EntryKeys(plugin_flavors)) :
         LET r == GetPlugin(plugin_flavors, key[1], key[2], key[3])
         IN  /\ init_count = 0 => r.exc = "RuntimeError"
             /\ key \in init_keys => (r.exc = "none" /\ r.value # None)
    /\ (last.op = "get_plugin" /\ Registered(plugin_flavors, last.args)) =>
         /\ init_count = 0 => last.exc = "RuntimeError"
         /\ last.args \in init_keys => (last.exc = "none" /\ last.value # None)

\* get_plugin has just returned the instance of a key that integrations
\* contributed, after initialize_plugins
C3_Witness ==
    /\ init_count > 0
    /\ last.op = "get_plugin"
    /\ last.exc = "none"
    /\ last.args \in init_keys
    /\ last.args[2] = "webhook"
    /\ last.value.id > 0

HasKey(classes, key) == \E i \in 1..Len(classes) : KeyOf(classes[i]) = key

\* C8: a key that a built-in flavor and an integration flavor both
\* contribute is registered with the built-in class, and a key that only
\* integration flavors contribute is registered with the class of the one
\* enumerated first.
C8_BuiltinsTakePrecedence ==
    \A key \in ClassKeys :
      /\ HasKey(builtin_flavors, key) =>
           RegisteredClass(plugin_flavors, key) = EarliestCall(builtin_flavors, key)
      /\ (~HasKey(builtin_flavors, key) /\ HasKey(integration_flavors, key)) =>
           RegisteredClass(plugin_flavors, key) = EarliestCall(integration_flavors, key)

\* an integration contributed a flavor under the key of a built-in flavor,
\* and the registry holds the built-in class
C8_Witness ==
    /\ HasKey(integration_flavors, KeyOf(PipelineRunActionFlavor))
    /\ RegisteredClass(plugin_flavors, KeyOf(PipelineRunActionFlavor))
         = "PipelineRunActionFlavor"

\* C9 (as claimed): no get_plugin call made while initialize_plugins is
\* running finds the registry partially initialized (some entries with a
\* plugin instance, others with none); until initialize_plugins has
\* completed, a reader's get_plugin does not succeed.
C9_NoPartialRead ==
    (last.op = "get_plugin" /\ last.during_init) =>
        (~last.partial /\ last.exc # "none")

\* C10 (as claimed): over any sequence of calls each key's plugin class is
\* instantiated at most once, and every successful get_plugin for the key
\* returns that one instance.
C10_InstantiatedOnce ==
    /\ \A key \in ClassKeys : inst_count[key] <= 1
    /\ (last.op = "get_plugin" /\ last.exc = "none") =>
           last.value = first_created[last.args]

\* C10 (amended): register_plugin_flavor and get_plugin never instantiate a
\* plugin class, and an initialize_plugins call instantiates the plugin class
\* of each key at most once, so a key's class has been instantiated at most
\* as many times as initialize_plugins has run (at most once while it has run
\* at most once); every successful get_plugin for the key returns the
\* instance that the latest initialize_plugins call created and cached.
C10_InstantiatedOncePerInitialize ==
    /\ \A key \in ClassKeys :
         /\ inst_count[key] <= init_count
         /\ Registered(plugin_flavors, key) =>
              InstanceOf(plugin_flavors, key) = created[key]
         /\ key \in init_keys => inst_count[key] >= 1
    /\ (last.op = "get_plugin" /\ last.exc = "none") =>
         /\ last.value = created[last.args]
         /\ last.value # None
         /\ init_count <= 1 => last.value = first_created[last.args]

\* after a second initialize_plugins, get_plugin has just returned the
\* instance that call created, which is not the one the first call created
C10_Witness ==
    /\ init_count = 2
    /\ last.op = "get_plugin"
    /\ last.exc = "none"
    /\ inst_count[last.args] = 2
    /\ last.value = created[last.args]
    /\ last.value # first_created[last.args]

----------------------------------------------------------------------------
(* Properties of the enumeration calls *)

\* the keys registered for a (type, subtype) pair, in insertion order
PairKeys(reg, type, subtype) ==
    SelectSeq(EntryKeys(reg), LAMBDA k : k[1] = type /\ k[2] = subtype)

RegisteredNames(reg, type, subtype) ==
    LET keys == PairKeys(reg, type, subtype)
    IN  [i \in 1..Len(keys) |-> keys[i][3]]

\* the responses of the flavors registered for a pair, in insertion order
RegisteredResponses(reg, type, subtype, hydrate) ==
    LET keys == PairKeys(reg, type, subtype)
    IN  [i \in 1..Len(keys) |->
            FlavorResponse(GetRegistryEntry(reg, keys[i][1], keys[i][2],
                                            keys[i][3]).value.flavor_class,
                           hydrate)]

\* ceil(n / s) for s >= 1
Ceil(n, s) == (n + s - 1) \div s

Min(a, b) == IF a < b THEN a ELSE b

\* C4 (as claimed): for a pair with N registered names and a page size
\* s >= 1, pages 1..ceil(N/s) of list_available_flavor_names_for_type_and_subtype
\* are non-empty and their concatenation in page order is the list of the
\* registered names in insertion order.
C4_NamePagesCoverAllNames ==
    (/\ last.op = "list_available_flavor_names_for_type_and_subtype"
     /\ last.exc = "none") =>
        LET type == last.args[1]
            subtype == last.args[2]
            size == last.args[4]
            names == RegisteredNames(plugin_flavors, type, subtype)
            pages == Ceil(Len(names), size)
            result(p) == ListAvailableFlavorNames(plugin_flavors, type, subtype,
                                                  p, size)
        IN  /\ \A p \in 1..pages : result(p).exc = "none" /\ Len(result(p).value) > 0
            /\ Concat([p \in 1..pages |-> result(p).value]) = names
            /\ (last.args[3] <= pages) => Len(last.value) > 0

\* C5: list_available_flavor_names_for_type_and_subtype fails with
\* RuntimeError exactly when page <= 0 or size <= 0, whatever the registry
\* holds; with both positive it returns a list, which is empty for a pair
\* without registered flavors.
C5_NamesRejectNonPositivePaging ==
    last.op = "list_available_flavor_names_for_type_and_subtype" =>
        LET page == last.args[3]
            size == last.args[4]
            names == RegisteredNames(plugin_flavors, last.args[1], last.args[2])
        IN  /\ last.exc = "RuntimeError" <=> (page <= 0 \/ size <= 0)
            /\ (page > 0 /\ size > 0) =>
                 /\ last.exc = "none"
                 /\ Len(last.value) <= size
                 /\ \A i \in 1..Len(last.value) : last.value[i] \in Range(names)
                 /\ names = <<>> => last.value = <<>>

\* page 1 of size 1 has just been listed without error, and is empty, for a
\* pair whose type is registered but whose subtype holds no flavors
C5_Witness ==
    /\ last.op = "list_available_flavor_names_for_type_and_subtype"
    /\ last.args[3] = 1
    /\ last.args[4] = 1
    /\ DictHas(plugin_flavors, last.args[1])
    /\ RegisteredNames(plugin_flavors, last.args[1], last.args[2]) = <<>>
    /\ last.exc = "none"
    /\ last.value = <<>>

\* C6: for page >= 1 and size >= 1,
\* list_available_flavor_responses_for_type_and_subtype returns a Page with
\* index = page, max_size = size, total = N and, as items, the responses of
\* the flavors at insertion positions (page-1)*size up to (excluding)
\* min(page*size, N) in insertion order; pages 1..ceil(N/size) concatenated
\* hold every registered flavor's response exactly once.
C6_ResponsePagesAreOneIndexed ==
    (/\ last.op = "list_available_flavor_responses_for_type_and_subtype"
     /\ last.args[3] >= 1
     /\ last.args[4] >= 1) =>
        LET type == last.args[1]
            subtype == last.args[2]
            page == last.args[3]
            size == last.args[4]
            hydrate == last.args[5]
            all == RegisteredResponses(plugin_flavors, type, subtype, hydrate)
            N == Len(all)
            from == (page - 1) * size
            to == Min(page * size, N)
            result(p) == ListAvailableFlavorResponses(plugin_flavors, type,
                                                      subtype, p, size, hydrate)
        IN  /\ last.exc = "none"
            /\ last.value.index = page
            /\ last.value.max_size = size
            /\ last.value.total = N
            /\ Len(last.value.items) = (IF to > from THEN to - from ELSE 0)
            /\ \A i \in 1..Len(last.value.items) :
                 last.value.items[i] = all[from + i]
            /\ Concat([p \in 1..Ceil(N, size) |-> result(p).value.items]) = all
            /\ \A i, j \in 1..N : all[i] = all[j] => i = j

\* page 2 of size 2 has just been listed for a pair with three flavors: it
\* holds the third flavor's response
C6_Witness ==
    /\ last.op = "list_available_flavor_responses_for_type_and_subtype"
    /\ last.args[3] = 2
    /\ last.args[4] = 2
    /\ last.exc = "none"
    /\ last.value.total = 3
    /\ Len(last.value.items) = 1
    /\ last.value.items[1].name =
         RegisteredNames(plugin_flavors, last.args[1], last.args[2])[3]

\* C7 (as claimed): list_available_flavor_responses_for_type_and_subtype
\* called with page <= 0 or size <= 0 fails with the RuntimeError that
\* rejects invalid pagination values: it returns no Page and fails with no
\* other error.
C7_ResponsesRejectNonPositivePaging ==
    (/\ last.op = "list_available_flavor_responses_for_type_and_subtype"
     /\ (last.args[3] <= 0 \/ last.args[4] <= 0))
    => last.exc = "RuntimeError"

----------------------------------------------------------------------------
(* Properties of prediction_service_loader *)

\* C11: prediction_service_loader makes exactly one find_model_server call,
\* with the four arguments it was given; whenever that call returns one or
\* more services, however many, the step returns the first of them and
\* raises nothing.
C11_OneCallFirstService ==
    last.op = "prediction_service_loader" =>
        /\ Len(last.find_calls) = 1
        /\ last.find_calls[1] = FindModelServerCall(last.args[1], last.args[2],
                                                    last.args[4], last.args[3])
        /\ last.found # <<>> =>
               /\ last.exc = "none"
               /\ last.value = Head(last.found)

\* two different services matched, and the step returned
C11_Witness ==
    /\ last.op = "prediction_service_loader"
    /\ Len(last.found) = 2
    /\ last.found[1] # last.found[2]
    /\ last.value = last.found[1]
    /\ ~last.args[3]

\* the way an f-string renders a bool
Str(b) == IF b THEN "True" ELSE "False"

\* C12: when find_model_server returns no service, prediction_service_loader
\* fails with a RuntimeError whose message identifies all four lookup
\* parameters: it holds pipeline_name, pipeline_step_name, model_name and the
\* value of the running flag, so lookups that differ in a parameter fail with
\* different messages.
C12_MessageIdentifiesAllParameters ==
    (last.op = "prediction_service_loader" /\ last.found = <<>>) =>
        /\ last.exc = "RuntimeError"
        /\ last.args[1] \in Range(last.message)
        /\ last.args[2] \in Range(last.message)
        /\ last.args[4] \in Range(last.message)
        /\ Str(last.args[3]) \in Range(last.message)
        /\ \A running \in BOOLEAN :
               running # last.args[3] =>
                   PredictionServiceLoader(last.args[1], last.args[2], running,
                                           last.args[4], <<>>).message
                       # last.message

----------------------------------------------------------------------------
(* Properties of the trigger models *)

MetadataAccessors == {"event_filter", "action", "description", "event_source"}

\* the value of a property that a response of the record holds
Stored(record, property) ==
    CASE property = "event_source_flavor" ->
             EventSourceResponse(record.event_source_id).flavor
      [] property = "action_flavor" -> record.action_flavor
      [] property = "event_filter" -> record.event_filter
      [] property = "action" -> record.action
      [] property = "description" -> record.description
      [] property = "event_source" -> EventSourceResponse(record.event_source_id)

\* C13: on a TriggerResponse that carries only the body (unhydrated), the
\* event_source and event_filter properties (and the other metadata
\* properties) fail with NotHydrated; the body properties event_source_flavor
\* and action_flavor succeed; and on the response get_hydrated_version
\* returned, the metadata and resources properties return the stored values
\* without error.
C13_UnhydratedAccessFails ==
    /\ (last.op \in MetadataAccessors /\ ~last.hydrated) =>
           last.exc = "NotHydrated"
    /\ (last.op \in MetadataAccessors /\ last.hydrated) => last.exc = "none"
    /\ last.op \in {"event_source_flavor", "action_flavor"} => last.exc = "none"
    /\ last.op = "list_triggers" =>
           /\ \A property \in {"event_source", "event_filter"} :
                  Access(response[1], property).exc = "NotHydrated"
           /\ \A property \in {"event_source_flavor", "action_flavor"} :
                  Access(response[1], property)
                      = [exc |-> "none", value |-> Stored(trigger, property)]
    /\ last.op = "get_hydrated_version" =>
           /\ last.exc = "none"
           /\ Access(response[1], "event_filter")
                  = [exc |-> "none", value |-> trigger.event_filter]
           /\ Access(response[1], "action")
                  = [exc |-> "none", value |-> trigger.action]
           /\ Access(response[1], "description")
                  = [exc |-> "none", value |-> trigger.description]
           /\ Access(response[1], "event_source")
                  = [exc |-> "none",
                     value |-> EventSourceResponse(trigger.event_source_id)]

\* event_filter was read on an unhydrated response of a trigger that has a
\* filter, and failed
C13_Witness ==
    /\ last.op = "event_filter"
    /\ ~last.hydrated
    /\ last.exc = "NotHydrated"
    /\ trigger.event_filter # <<>>

\* the fields of a trigger record that TriggerUpdate does not carry
FieldsNotCarried(record) ==
    <<record.id, record.event_source_id, record.action_flavor, record.action_subtype>>

\* C14: applying a TriggerUpdate is a merge-patch: a field left unset keeps
\* the record's value, so an update with every field unset leaves the record
\* as it was and an update with only is_active set changes is_active alone;
\* event_source_id, action_flavor and action_subtype are changed by no update.
C14_UpdateIsMergePatch ==
    last.op = "update_trigger" =>
        /\ last.args[1] = Unset => trigger.name = last.before.name
        /\ last.args[2] = Unset => trigger.description = last.before.description
        /\ last.args[3] = Unset => trigger.event_filter = last.before.event_filter
        /\ last.args[4] = Unset => trigger.action = last.before.action
        /\ last.args[5] = Unset => trigger.is_active = last.before.is_active
        /\ last.args[5] # Unset => trigger.is_active = last.args[5][1]
        /\ FieldsNotCarried(trigger) = FieldsNotCarried(last.before)
        /\ (\A i \in 1..5 : last.args[i] = Unset) => trigger = last.before

\* an update with only is_active set was applied to an active trigger that
\* earlier updates had given a description and a filter
C14_Witness ==
    /\ last.op = "update_trigger"
    /\ last.args = <<Unset, Unset, Unset, Unset, Some(FALSE)>>
    /\ last.before.is_active
    /\ ~trigger.is_active
    /\ trigger.description = "d"
    /\ trigger.event_filter # <<>>

----------------------------------------------------------------------------
(* Lifecycle of keys registered after initialize_plugins *)

\* keys registered since the latest initialize_plugins have no instance, and
\* get_plugin fails for them with RuntimeError; keys that call initialized
\* have an instance, which get_plugin returns
C15_LateKeysUninitialized ==
    /\ \A key \in Range(EntryKeys(plugin_flavors)) :
         LET r == GetPlugin(plugin_flavors, key[1], key[2], key[3])
         IN  IF key \in init_keys
             THEN r.exc = "none" /\ r.value = InstanceOf(plugin_flavors, key)
                  /\ r.value # None
             ELSE r.exc = "RuntimeError" /\ InstanceOf(plugin_flavors, key) = None
    /\ (last.op = "get_plugin" /\ Registered(plugin_flavors, last.args)) =>
         IF last.args \in init_keys THEN last.exc = "none"
         ELSE last.exc = "RuntimeError"

\* a register call leaves every key's plugin instance, and the set of
\* initialized keys, as they were
C15_RegisterKeepsInstances ==
    (last.op = "idle" /\ last'.op = "register_plugin_flavor") =>
        /\ \A key \in ClassKeys :
               InstanceOf(plugin_flavors', key) = InstanceOf(plugin_flavors, key)
        /\ init_keys' = init_keys

\* C15: a key registered with register_plugin_flavor after initialize_plugins
\* has completed has no plugin instance, so get_plugin for it fails with
\* RuntimeError until initialize_plugins runs again, while get_plugin for
\* every key initialized earlier keeps succeeding; a duplicate register call
\* for an initialized key neither clears nor replaces the key's instance.
C15_LateRegistrationLifecycle ==
    [](C15_LateKeysUninitialized) /\ [][C15_RegisterKeepsInstances]_vars

\* after initialize_plugins completed, a key was registered and get_plugin
\* for it has just failed, while the built-in scheduler keeps its instance
C15_Witness ==
    /\ init_count > 0
    /\ last.op = "get_plugin"
    /\ last.exc = "RuntimeError"
    /\ Registered(plugin_flavors, last.args)
    /\ last.args \notin init_keys
    /\ <<"event_source", "scheduler", "scheduler">> \in init_keys
    /\ InstanceOf(plugin_flavors, <<"event_source", "scheduler", "scheduler">>) # None

====
